---- MODULE Spec2Model ----
(***************************************************************************)
(* A model of the IRRES scraper: the two scrapers of scraper.py, the Flask *)
(* endpoints of api.py and the FastAPI endpoints of app.py.                *)
(*                                                                         *)
(* A Python str is a sequence of characters; a character is a one-element  *)
(* TLA+ string and ord gives its code point.  A parsed page is the         *)
(* sequence of the elements the code selects from it, in document order.   *)
(***************************************************************************)
EXTENDS Integers, Sequences, FiniteSets, TLC

VARIABLES site, op, fmt, net, gets, envelope, response, locations

vars == <<site, op, fmt, net, gets, envelope, response, locations>>

(***************************************************************************)
(* Bounds of the model.                                                    *)
(***************************************************************************)
MaxElems == 2
MaxPictures == 3

(***************************************************************************)
(* Characters and the str methods the code uses.                           *)
(***************************************************************************)
Digits == << "0", "1", "2", "3", "4", "5", "6", "7", "8", "9" >>

Upper ==
    << "A", "B", "C", "D", "E", "F", "G", "H", "I", "J", "K", "L", "M",
       "N", "O", "P", "Q", "R", "S", "T", "U", "V", "W", "X", "Y", "Z" >>

Lower ==
    << "a", "b", "c", "d", "e", "f", "g", "h", "i", "j", "k", "l", "m",
       "n", "o", "p", "q", "r", "s", "t", "u", "v", "w", "x", "y", "z" >>

Range(s) == { s[i] : i \in DOMAIN s }

IndexOf(s, c) == CHOOSE i \in DOMAIN s : s[i] = c

\* The characters of the model.
Chars == Range(Digits) \cup Range(Upper) \cup Range(Lower)
            \cup {"\n", " ", ",", "-", ".", "/", "²", "€"}

\* ord(c): the code point of c.
ord ==
    [ c \in Chars |->
        CASE c \in Range(Digits) -> 47 + IndexOf(Digits, c)
          [] c \in Range(Upper) -> 64 + IndexOf(Upper, c)
          [] c \in Range(Lower) -> 96 + IndexOf(Lower, c)
          [] c = "\n" -> 10
          [] c = " " -> 32
          [] c = "," -> 44
          [] c = "-" -> 45
          [] c = "." -> 46
          [] c = "/" -> 47
          [] c = "²" -> 178
          [] c = "€" -> 8364 ]

\* str.isspace of one character.
isspace(c) == c \in {" ", "\n"}

\* str.isdigit of one character: the decimal digits and the other characters
\* of Unicode numeric type Digit, such as the superscript two.
isdigit(c) == ord[c] \in 48..57 \/ c = "²"

\* str.isdecimal of one character: the decimal digits only.
isdecimal(c) == ord[c] \in 48..57

\* str.lower of one character.
lowerChar(c) == IF c \in Range(Upper) THEN Lower[IndexOf(Upper, c)] ELSE c

\* str.lower
lower(s) == [ i \in DOMAIN s |-> lowerChar(s[i]) ]

\* str.strip(): drops leading and trailing whitespace.
strip(s) ==
    LET keep == { i \in DOMAIN s : ~isspace(s[i]) }
    IN  IF keep = {} THEN <<>>
        ELSE LET lo == CHOOSE i \in keep : \A j \in keep : i <= j
                 hi == CHOOSE i \in keep : \A j \in keep : j <= i
             IN  SubSeq(s, lo, hi)

\* lstrip that leaves the string as it is.
lstrip_nothing(s) == s

\* str.lstrip on the slash: drops every leading slash.
lstrip_slash(s) ==
    LET keep == { i \in DOMAIN s : s[i] # "/" }
    IN  IF keep = {} THEN <<>>
        ELSE SubSeq(s, CHOOSE i \in keep : \A j \in keep : i <= j, Len(s))

\* sub in s
contains(sub, s) ==
    \E i \in 1..(Len(s) - Len(sub) + 1) : SubSeq(s, i, i + Len(sub) - 1) = sub

\* a < b for str: lexicographic by code point.
str_less(a, b) ==
    \E i \in 1..Len(b) :
        /\ i <= Len(a) + 1
        /\ \A j \in 1..(i - 1) : a[j] = b[j]
        /\ \/ i = Len(a) + 1
           \/ ord[a[i]] < ord[b[i]]

\* sorted(list(S)) for a set of str.
RECURSIVE sorted(_)
sorted(S) ==
    IF S = {} THEN <<>>
    ELSE LET m == CHOOSE x \in S : \A y \in S : ~str_less(y, x)
         IN  <<m>> \o sorted(S \ {m})

(***************************************************************************)
(* Python values.  A dict is a function on its keys.  An operation that    *)
(* can raise yields a record: raised, and then exc (the exception) or      *)
(* value (the return value).                                               *)
(***************************************************************************)
EmptyDict == [ k \in {} |-> <<>> ]

\* dict.setdefault: the first value of a key stays.
DictSetDefault(d, k, v) == [ j \in DOMAIN d \cup {k} |-> IF j \in DOMAIN d THEN d[j] ELSE v ]

DictSet(d, k, v) == [ j \in DOMAIN d \cup {k} |-> IF j = k THEN v ELSE d[j] ]

Return(v) == [ raised |-> FALSE, exc |-> "none", value |-> v ]

Raise(e) == [ raised |-> TRUE, exc |-> e, value |-> <<>> ]

(***************************************************************************)
(* The network: what requests.get and raise_for_status do on one GET.      *)
(* "Timeout" stands for the exceptions requests.get raises (a timeout, a   *)
(* connection error), "HTTPError" for the one raise_for_status raises on a *)
(* non-2xx status; all are RequestException.                               *)
(***************************************************************************)
NetOutcomes == {"ok", "Timeout", "HTTPError"}

(***************************************************************************)
(* scraper.py, IRRESLocationScraper                                        *)
(***************************************************************************)
\* fetch_page with a second attempt after a failed GET.
fetch_page_retry(page, n) ==
    IF n = "ok"
    THEN [ raised |-> FALSE, exc |-> "none", value |-> page, gets |-> 1 ]
    ELSE [ raised |-> TRUE, exc |-> n, value |-> <<>>, gets |-> 2 ]

\* One GET of BASE_URL; a RequestException is logged and re-raised.
\* page: the body the origin serves; n: the outcome of the GET.
IRRESLocationScraper_fetch_page(page, n) ==
    IF n = "ok"
    THEN [ raised |-> FALSE, exc |-> "none", value |-> page, gets |-> 1 ]
    ELSE [ raised |-> TRUE, exc |-> n, value |-> <<>>, gets |-> 1 ]

excluded_labels ==
    { <<"a","p","p","a","r","t","e","m","e","n","t">>,
      <<"h","u","i","s">>,
      <<"g","r","o","n","d">>,
      <<"c","o","n","t","a","c","t">>,
      <<"d","r","o","o","m","w","o","n","i","n","g">>,
      <<"n","i","e","u","w","b","o","u","w">>,
      <<"v","e","r","k","o","c","h","t">>,
      <<"v","e","r","k","o","p","e","n">>,
      <<"t","e","-","k","o","o","p">>,
      <<"a","a","n","b","o","d">>,
      <<"r","e","k","r","u","t","e","r","i","n","g">> }

\* The filter with the exclusion test on the label as written.
is_location_label_case_sensitive(label) ==
    /\ label # <<>>
    /\ label \notin excluded_labels
    /\ ~contains(<<"€">>, label)
    /\ ~\E i \in DOMAIN label : isdigit(label[i])

\* The condition of the if statement of parse_locations on a stripped label.
is_location_label(label) ==
    /\ label # <<>>
    /\ lower(label) \notin excluded_labels
    /\ ~contains(<<"€">>, label)
    /\ ~\E i \in DOMAIN label : isdigit(label[i])

\* find_all(attrs={"data-label": True}): the elements that carry the
\* attribute, in document order.
data_label_elements(html) == SelectSeq(html.items, LAMBDA e : e.hasLabel)

\* parse_locations with the labels trimmed after the set was built.
parse_locations_strip_late(html) ==
    LET elements == data_label_elements(html)
        raw == sorted({ elements[i].label : i \in
                   { j \in DOMAIN elements : is_location_label(strip(elements[j].label)) } })
    IN  [ i \in DOMAIN raw |-> strip(raw[i]) ]

\* parse_locations: the labels that pass the filter, as a set, then sorted.
parse_locations(html) ==
    LET elements == data_label_elements(html)
        locations_set ==
            { strip(elements[i].label) : i \in
                { j \in DOMAIN elements : is_location_label(strip(elements[j].label)) } }
    IN  sorted(locations_set)

\* scrape that empties self.locations when the fetch fails.
scrape_clears_on_error(page, n, self_locations) ==
    LET f == IRRESLocationScraper_fetch_page(page, n)
    IN  IF f.raised
        THEN [ envelope |-> [ locations |-> <<>>, count |-> 0,
                              status |-> "error", error |-> f.exc ],
               self_locations |-> <<>>,
               gets |-> f.gets ]
        ELSE [ envelope |-> [ locations |-> parse_locations(f.value),
                              count |-> Len(parse_locations(f.value)),
                              status |-> "success", error |-> "none" ],
               self_locations |-> parse_locations(f.value),
               gets |-> f.gets ]

\* scrape: the envelope returned, the new value of self.locations and the
\* number of GETs issued.  The key error is absent from a success envelope;
\* it is "none" here.
IRRESLocationScraper_scrape(page, n, self_locations) ==
    LET f == IRRESLocationScraper_fetch_page(page, n)
    IN  IF f.raised
        THEN [ envelope |-> [ locations |-> <<>>, count |-> 0,
                              status |-> "error", error |-> f.exc ],
               self_locations |-> self_locations,
               gets |-> f.gets ]
        ELSE LET locs == parse_locations(f.value)
             IN  [ envelope |-> [ locations |-> locs, count |-> Len(locs),
                                  status |-> "success", error |-> "none" ],
                   self_locations |-> locs,
                   gets |-> f.gets ]

\* get_locations of IRRESLocationScraper: returns self.locations.
IRRESLocationScraper_get_locations(self_locations) == self_locations

\* get_irres_locations: a fresh scraper (self.locations = []) and one scrape.
get_irres_locations(page, n) == IRRESLocationScraper_scrape(page, n, <<>>)

(***************************************************************************)
(* scraper.py, IRRESOfficeImagesScraper                                    *)
(***************************************************************************)
\* fetch_page that swallows the RequestException and returns an empty page.
fetch_page_swallow(page, n) ==
    [ raised |-> FALSE, exc |-> "none", value |-> IF n = "ok" THEN page ELSE <<>>,
      gets |-> 1 ]

\* One GET of BASE_URL; a RequestException is logged and re-raised.
IRRESOfficeImagesScraper_fetch_page(page, n) ==
    IF n = "ok"
    THEN [ raised |-> FALSE, exc |-> "none", value |-> page, gets |-> 1 ]
    ELSE [ raised |-> TRUE, exc |-> n, value |-> <<>>, gets |-> 1 ]

ORIGIN == <<"h","t","t","p","s",":","/","/","i","r","r","e","s",".","b","e","/">>

\* srcset.split()[0]: the first whitespace-delimited token; IndexError when
\* the string has no token.
split_first(s) ==
    LET t == strip(s)
        ws == { i \in DOMAIN t : isspace(t[i]) }
    IN  IF t = <<>> THEN Raise("IndexError")
        ELSE IF ws = {} THEN Return(t)
        ELSE Return(SubSeq(t, 1, (CHOOSE i \in ws : \A j \in ws : i <= j) - 1))

\* img.get(name, ''): the attribute, or '' when the img does not carry it.
img_get(present, text) == IF present THEN text ELSE <<>>

\* The first condition of the if/elif of parse_office_images.
is_latem(url, alt) ==
    \/ contains(<<"7","7","2","3","3","8","4">>, url)
    \/ contains(<<"k","e","r","s","t","g","e","v","e","l">>, url)
    \/ contains(<<"l","a","t","e","m">>, alt)

\* The second condition of the if/elif of parse_office_images.
is_destelbergen(url) ==
    \/ contains(<<"7","7","2","3","3","8","3">>, url)
    \/ contains(<<"d","e","s","t","e","l","b","e","r","g","e","n">>, url)

\* The if/elif with the office-B test first.
record_office_destelbergen_first(url, alt, images) ==
    IF is_destelbergen(url)
    THEN DictSet(images, "IrresDestelbergenImage", ORIGIN \o url)
    ELSE IF is_latem(url, alt)
    THEN DictSet(images, "IrresLatemImage", ORIGIN \o url)
    ELSE images

\* The if/elif of parse_office_images: the dict after recording url.
record_office(url, alt, images) ==
    IF is_latem(url, alt)
    THEN DictSet(images, "IrresLatemImage", ORIGIN \o url)
    ELSE IF is_destelbergen(url)
    THEN DictSet(images, "IrresDestelbergenImage", ORIGIN \o url)
    ELSE images

\* The block under "if srcset:" once srcset.split()[0] has been evaluated
\* to tok: the exception propagates, or the url is classified.
record_token(tok, alt, images) ==
    IF tok.raised THEN tok
    ELSE Return(record_office(lstrip_slash(tok.value), alt, images))

\* The body of the for loop from "srcset = img.get(...)" on.
record_img(srcset, alt, images) ==
    IF srcset = <<>> THEN Return(images)
    ELSE record_token(split_first(srcset), alt, images)

\* The body of the for loop of parse_office_images on one picture element:
\* the dict after the iteration, or the exception raised.
picture_step(picture, images) ==
    IF ~picture.hasImg THEN Return(images)
    ELSE record_img(img_get(picture.hasSrcset, picture.srcset),
                    lower(img_get(picture.hasAlt, picture.alt)),
                    images)

\* The for loop of parse_office_images from picture i on.
RECURSIVE parse_pictures(_, _, _)
parse_pictures(picture_elements, i, images) ==
    IF i > Len(picture_elements) THEN Return(images)
    ELSE LET step == picture_step(picture_elements[i], images)
         IN  IF step.raised THEN step
             ELSE parse_pictures(picture_elements, i + 1, step.value)

\* parse_office_images: html is the sequence of picture elements.
parse_office_images(html) == parse_pictures(html, 1, EmptyDict)

\* scrape: the envelope returned and the number of GETs issued.
IRRESOfficeImagesScraper_scrape(page, n) ==
    LET f == IRRESOfficeImagesScraper_fetch_page(page, n)
        p == IF f.raised THEN f ELSE parse_office_images(f.value)
    IN  IF p.raised
        THEN [ envelope |-> [ status |-> "error", images |-> EmptyDict,
                              count |-> 0, error |-> p.exc ],
               gets |-> f.gets ]
        ELSE [ envelope |-> [ status |-> "success", images |-> p.value,
                              count |-> Cardinality(DOMAIN p.value), error |-> "none" ],
               gets |-> f.gets ]

\* get_irres_office_images: a fresh scraper and one scrape.
get_irres_office_images(page, n) == IRRESOfficeImagesScraper_scrape(page, n)

(***************************************************************************)
(* api.py: the Flask endpoints.  A response is a record of the HTTP status *)
(* code, the mimetype and the fields of the body (the timestamp is left    *)
(* out).                                                                   *)
(***************************************************************************)
\* "\n".join(lines)
RECURSIVE join(_)
join(lines) ==
    IF lines = <<>> THEN <<>>
    ELSE IF Len(lines) = 1 THEN lines[1]
    ELSE lines[1] \o <<"\n">> \o join(Tail(lines))

format_csv_response(locs) ==
    [ code |-> 200,
      mimetype |-> "text/csv",
      body |-> <<"l","o","c","a","t","i","o","n","\n">> \o join(locs) ]

\* GET /api/locations: the response and the number of GETs issued.
\* format: the value of the query parameter ('json' when it is not given).
api_get_locations(page, n, format) ==
    LET r == get_irres_locations(page, n)
        result == r.envelope
        output_format == lower(format)
    IN  [ response |->
            IF output_format = <<"c","s","v">>
            THEN format_csv_response(result.locations)
            ELSE [ code |-> 200,
                   mimetype |-> "application/json",
                   status |-> "success",
                   data |-> [ locations |-> result.locations,
                              count |-> Len(result.locations) ] ],
          envelope |-> result,
          gets |-> r.gets ]

\* GET /api/office-images: the response and the number of GETs issued.
api_get_office_images(page, n) ==
    LET r == get_irres_office_images(page, n)
        result == r.envelope
    IN  [ response |-> [ code |-> IF result.status = "success" THEN 200 ELSE 500,
                         mimetype |-> "application/json",
                         status |-> result.status,
                         data |-> result.images ],
          envelope |-> result,
          gets |-> r.gets ]

(***************************************************************************)
(* app.py: IrresLocationScraper and the FastAPI endpoints.                 *)
(***************************************************************************)
\* One GET of base_url; a RequestException is printed and None is returned.
IrresLocationScraper_fetch_page(page, n) ==
    IF n = "ok"
    THEN [ isNone |-> FALSE, value |-> page, gets |-> 1 ]
    ELSE [ isNone |-> TRUE, value |-> <<>>, gets |-> 1 ]

\* The dict extract_locations builds for one li element.
location_data(item) ==
    [ label |-> strip(img_get(item.hasLabel, item.label)),
      value |-> strip(item.value),
      display_text |-> strip(item.text) ]

\* extract_locations: the li elements of the first ul of class
\* search-values that have a label and a value.
extract_locations(html_content) ==
    IF ~html_content.filterList THEN <<>>
    ELSE LET all == [ i \in DOMAIN html_content.items |->
                        location_data(html_content.items[i]) ]
         IN  SelectSeq(all, LAMBDA d : d.label # <<>> /\ d.value # <<>>)

\* get_locations of app.py's scraper: the list and the number of GETs issued.
IrresLocationScraper_get_locations(page, n) ==
    LET html_content == IrresLocationScraper_fetch_page(page, n)
    IN  [ value |-> IF html_content.isNone THEN <<>>
                    ELSE extract_locations(html_content.value),
          gets |-> html_content.gets ]

\* What FastAPI answers when the handler's try block ended as body: an
\* exception raised in the block is caught by "except Exception" and
\* replaced by HTTPException(500).
app_respond(body) ==
    IF body.raised
    THEN [ code |-> 500, detail |-> body.exc ]
    ELSE [ code |-> 200, body |-> body.value ]

\* GET /locations
app_get_locations(page, n) ==
    LET r == IrresLocationScraper_get_locations(page, n)
    IN  [ response |-> app_respond(IF r.value = <<>>
                                   THEN Raise("HTTPException(404)")
                                   ELSE Return(r.value)),
          gets |-> r.gets ]

\* GET /locations/labels
app_get_location_labels(page, n) ==
    LET r == IrresLocationScraper_get_locations(page, n)
    IN  [ response |-> app_respond(IF r.value = <<>>
                                   THEN Raise("HTTPException(404)")
                                   ELSE Return([ i \in DOMAIN r.value |-> r.value[i].label ])),
          gets |-> r.gets ]

\* GET /locations/count
app_get_location_count(page, n) ==
    LET r == IrresLocationScraper_get_locations(page, n)
    IN  [ response |-> app_respond(Return([ count |-> Len(r.value) ])),
          gets |-> r.gets ]

(***************************************************************************)
(* The origin site.  The listing page is the sequence of its elements that *)
(* the two location scrapers look at, and whether they are the li elements *)
(* of a ul of class search-values; the contact page is the sequence of its *)
(* picture elements.                                                       *)
(***************************************************************************)
ElementPool ==
    { [ hasLabel |-> TRUE, label |-> <<"G","e","n","t">>, value |-> <<"g","e","n","t">>, text |-> <<"G","e","n","t">> ],
      [ hasLabel |-> TRUE, label |-> <<" ","G","e","n","t","\n">>, value |-> <<" ">>, text |-> <<" ","G","e","n","t"," ">> ],
      [ hasLabel |-> TRUE, label |-> <<"g","e","n","t">>, value |-> <<"g">>, text |-> <<"g","e","n","t">> ],
      [ hasLabel |-> TRUE, label |-> <<"H","u","i","s">>, value |-> <<"h","u","i","s">>, text |-> <<"H","u","i","s">> ],
      [ hasLabel |-> TRUE, label |-> <<"G","e","n","t","9">>, value |-> <<"p">>, text |-> <<"G","e","n","t","9">> ],
      [ hasLabel |-> TRUE, label |-> <<"k","€">>, value |-> <<"k">>, text |-> <<"k">> ],
      [ hasLabel |-> TRUE, label |-> <<"m","²">>, value |-> <<"m">>, text |-> <<"m">> ],
      [ hasLabel |-> TRUE, label |-> <<" ">>, value |-> <<"w">>, text |-> <<>> ],
      [ hasLabel |-> FALSE, label |-> <<>>, value |-> <<"x">>, text |-> <<"x">> ] }

PicturePool ==
    { [ hasImg |-> FALSE, hasSrcset |-> FALSE, srcset |-> <<>>, hasAlt |-> FALSE, alt |-> <<>> ],
      [ hasImg |-> TRUE, hasSrcset |-> FALSE, srcset |-> <<>>, hasAlt |-> TRUE, alt |-> <<"L","a","t","e","m">> ],
      [ hasImg |-> TRUE, hasSrcset |-> TRUE, srcset |-> <<"/","i","m","g","/","7","7","2","3","3","8","4","-","x",".","j","p","g"," ","8","0","0","w">>, hasAlt |-> FALSE, alt |-> <<>> ],
      [ hasImg |-> TRUE, hasSrcset |-> TRUE, srcset |-> <<"/","/","c","d","n","/","7","7","2","3","3","8","3",".","j","p","g"," ","2","x">>, hasAlt |-> TRUE, alt |-> <<"L","a","t","e","m">> ],
      [ hasImg |-> TRUE, hasSrcset |-> TRUE, srcset |-> <<"d","e","s","t","e","l","b","e","r","g","e","n",".","p","n","g">>, hasAlt |-> FALSE, alt |-> <<>> ],
      [ hasImg |-> TRUE, hasSrcset |-> TRUE, srcset |-> <<"/","7","7","2","3","3","8","3",".","j","p","g">>, hasAlt |-> TRUE, alt |-> <<>> ],
      [ hasImg |-> TRUE, hasSrcset |-> TRUE, srcset |-> <<" ">>, hasAlt |-> TRUE, alt |-> <<"L","a","t","e","m">> ],
      [ hasImg |-> TRUE, hasSrcset |-> TRUE, srcset |-> <<"/","x",".","j","p","g">>, hasAlt |-> TRUE, alt |-> <<"x">> ] }

SeqsUpTo(S, n) == UNION { [ 1..k -> S ] : k \in 0..n }

ListingPages == [ filterList : BOOLEAN, items : SeqsUpTo(ElementPool, MaxElems) ]

ContactPages == SeqsUpTo(PicturePool, MaxPictures)

EmptyListing == [ filterList |-> FALSE, items |-> <<>> ]

Sites ==
    { [ listing |-> l, contact |-> <<>> ] : l \in ListingPages }
        \cup { [ listing |-> EmptyListing, contact |-> c ] : c \in ContactPages }

\* The values of the query parameter format of GET /api/locations.
Formats == { <<"j","s","o","n">>, <<"C","S","V">> }

NoFormat == <<>>

NoEnvelope == [ status |-> "none" ]

NoResponse == [ code |-> 0 ]

(***************************************************************************)
(* The state machine.                                                      *)
(*   site       what the origin serves                                     *)
(*   op         the last operation invoked since the origin changed        *)
(*   fmt, net   its format parameter and the outcome of its GET            *)
(*   gets       the number of GETs it issued                               *)
(*   envelope   the envelope the scrape it called returned                 *)
(*   response   the HTTP response it sent                                  *)
(*   locations  self.locations of a long-lived IRRESLocationScraper        *)
(***************************************************************************)
Init ==
    /\ site \in Sites
    /\ op = "none"
    /\ fmt = NoFormat
    /\ net = "none"
    /\ gets = 0
    /\ envelope = NoEnvelope
    /\ response = NoResponse
    /\ locations = <<>>

\* scrape() on the long-lived IRRESLocationScraper.
Scrape ==
    \E n \in NetOutcomes :
        LET r == IRRESLocationScraper_scrape(site.listing, n, locations)
        IN  /\ op' = "scrape"
            /\ net' = n
            /\ fmt' = NoFormat
            /\ gets' = r.gets
            /\ envelope' = r.envelope
            /\ response' = NoResponse
            /\ locations' = r.self_locations
            /\ UNCHANGED site

ApiGetLocations ==
    \E n \in NetOutcomes, f \in Formats :
        LET r == api_get_locations(site.listing, n, f)
        IN  /\ op' = "api_get_locations"
            /\ net' = n
            /\ fmt' = f
            /\ gets' = r.gets
            /\ envelope' = r.envelope
            /\ response' = r.response
            /\ UNCHANGED <<site, locations>>

ApiGetOfficeImages ==
    \E n \in NetOutcomes :
        LET r == api_get_office_images(site.contact, n)
        IN  /\ op' = "api_get_office_images"
            /\ net' = n
            /\ fmt' = NoFormat
            /\ gets' = r.gets
            /\ envelope' = r.envelope
            /\ response' = r.response
            /\ UNCHANGED <<site, locations>>

AppGetLocations ==
    \E n \in NetOutcomes :
        LET r == app_get_locations(site.listing, n)
        IN  /\ op' = "app_get_locations"
            /\ net' = n
            /\ fmt' = NoFormat
            /\ gets' = r.gets
            /\ envelope' = NoEnvelope
            /\ response' = r.response
            /\ UNCHANGED <<site, locations>>

AppGetLocationLabels ==
    \E n \in NetOutcomes :
        LET r == app_get_location_labels(site.listing, n)
        IN  /\ op' = "app_get_location_labels"
            /\ net' = n
            /\ fmt' = NoFormat
            /\ gets' = r.gets
            /\ envelope' = NoEnvelope
            /\ response' = r.response
            /\ UNCHANGED <<site, locations>>

AppGetLocationCount ==
    \E n \in NetOutcomes :
        LET r == app_get_location_count(site.listing, n)
        IN  /\ op' = "app_get_location_count"
            /\ net' = n
            /\ fmt' = NoFormat
            /\ gets' = r.gets
            /\ envelope' = NoEnvelope
            /\ response' = r.response
            /\ UNCHANGED <<site, locations>>

\* The origin takes the last element off the listing page.  Nothing has
\* been invoked on the new page yet; the long-lived scraper keeps its list.
OriginUpdate ==
    /\ site.listing.items # <<>>
    /\ site' = [ site EXCEPT !.listing.items =
                    SubSeq(site.listing.items, 1, Len(site.listing.items) - 1) ]
    /\ op' = "none"
    /\ fmt' = NoFormat
    /\ net' = "none"
    /\ gets' = 0
    /\ envelope' = NoEnvelope
    /\ response' = NoResponse
    /\ UNCHANGED locations

Next ==
    \/ Scrape
    \/ ApiGetLocations
    \/ ApiGetOfficeImages
    \/ AppGetLocations
    \/ AppGetLocationLabels
    \/ AppGetLocationCount
    \/ OriginUpdate

Spec == Init /\ [][Next]_vars

(***************************************************************************)
(* Properties.                                                             *)
(***************************************************************************)
HasStatus(r, st) == "status" \in DOMAIN r /\ r.status = st

\* C1: GET /api/locations answers 200 (status "success") only when the fetch
\* of the listing page succeeded, and answers a structured error envelope
\* with HTTP status 500 whenever the fetch fails, for json and for csv.
C1_FetchFailureIs500 ==
    op = "api_get_locations" =>
        /\ response.code = 200 => net = "ok"
        /\ net # "ok" => response.code = 500 /\ HasStatus(response, "error")

\* C2: GET /locations/labels answers 404 when the scraper yields an empty
\* list, 200 with the labels when the list is non-empty, and 500 in neither
\* of these cases.
C2_EmptyListIs404 ==
    op = "app_get_location_labels" =>
        LET locs == IrresLocationScraper_get_locations(site.listing, net).value
        IN  /\ locs = <<>> => response.code = 404
            /\ locs # <<>> =>
                /\ response.code = 200
                /\ response.body = [ i \in DOMAIN locs |-> locs[i].label ]


(***************************************************************************)
(* Location extraction: C3, C4.                                            *)
(***************************************************************************)
\* A scrape of the listing page returned its list.
LocationsScraped ==
    /\ op \in {"scrape", "api_get_locations"}
    /\ envelope.status = "success"

\* The trimmed data-label values of the page.
TrimmedLabels ==
    { strip(site.listing.items[i].label) :
        i \in { j \in DOMAIN site.listing.items : site.listing.items[j].hasLabel } }

Min(S) == CHOOSE x \in S : \A y \in S : x <= y

Max(S) == CHOOSE x \in S : \A y \in S : y <= x

\* a comes strictly before b in code-point order.
Precedes(a, b) ==
    LET n == IF Len(a) < Len(b) THEN Len(a) ELSE Len(b)
        diff == { i \in 1..n : a[i] # b[i] }
    IN  IF diff = {} THEN Len(a) < Len(b)
        ELSE ord[a[Min(diff)]] < ord[b[Min(diff)]]

\* C3: the list parse_locations returns has no two equal entries and is in
\* strictly ascending code-point order, whatever the data-label values are.
C3_UniqueAscending ==
    LocationsScraped =>
        LET out == envelope.locations
        IN  /\ \A i, j \in DOMAIN out : i # j => out[i] # out[j]
            /\ \A i \in 1..(Len(out) - 1) : Precedes(out[i], out[i + 1])

\* Witness of C3: two elements whose data-label values differ only in
\* surrounding whitespace were parsed, and collapsed to one entry.
C3_Witness ==
    /\ LocationsScraped
    /\ Len(site.listing.items) = 2
    /\ site.listing.items[1].label # site.listing.items[2].label
    /\ strip(site.listing.items[1].label) = strip(site.listing.items[2].label)
    /\ Len(envelope.locations) = 1

\* The four defects of a trimmed label, digits being those of str.isdigit.
Defective(label) ==
    \/ label = <<>>
    \/ \E x \in excluded_labels : lower(label) = x
    \/ "€" \in Range(label)
    \/ \E c \in Range(label) : isdigit(c)

\* The four defects of a trimmed label, digits being the decimal digits.
DefectiveDecimal(label) ==
    \/ label = <<>>
    \/ \E x \in excluded_labels : lower(label) = x
    \/ "€" \in Range(label)
    \/ \E c \in Range(label) : isdecimal(c)

\* C4 (amended): the entries of the list parse_locations returns are exactly
\* the trimmed data-label values that are not empty, not in the exclusion
\* set (case-insensitively), free of the euro sign and free of characters
\* that str.isdigit accepts (decimal digits and other digit characters such
\* as the superscript two).
C4_ExactlyTheCleanLabels ==
    LocationsScraped =>
        Range(envelope.locations) = { l \in TrimmedLabels : ~Defective(l) }

\* C4 as stated: the entries are exactly the trimmed data-label values that
\* are not empty, not excluded, free of the euro sign and free of decimal
\* digits.
C4_Original ==
    LocationsScraped =>
        Range(envelope.locations) = { l \in TrimmedLabels : ~DefectiveDecimal(l) }

\* Witness of C4: a page with a label holding a superscript two and a clean
\* label was parsed, and the list is not empty.
C4_Witness ==
    /\ LocationsScraped
    /\ \E l \in TrimmedLabels : "²" \in Range(l)
    /\ envelope.locations # <<>>

(***************************************************************************)
(* Result envelopes: C5.                                                   *)
(***************************************************************************)
\* C5: a scrape whose fetch raises a network error returns an envelope with
\* status "error", an empty payload, count 0 and an error message; status
\* "success" is returned only when fetch and parse both completed.
C5_FetchErrorEnvelope ==
    /\ op \in {"scrape", "api_get_locations"} =>
        /\ envelope.status \in {"success", "error"}
        /\ net # "ok" =>
            /\ envelope.status = "error"
            /\ envelope.locations = <<>>
            /\ envelope.count = 0
            /\ envelope.error # "none"
        /\ envelope.status = "success" => net = "ok"
    /\ op = "api_get_office_images" =>
        /\ envelope.status \in {"success", "error"}
        /\ net # "ok" =>
            /\ envelope.status = "error"
            /\ envelope.images = EmptyDict
            /\ envelope.count = 0
            /\ envelope.error # "none"
        /\ envelope.status = "success" =>
            /\ net = "ok"
            /\ ~parse_office_images(site.contact).raised

\* Witness of C5: the fetch of a contact page that holds pictures timed out
\* and the office image scrape returned an error envelope.
C5_Witness ==
    /\ op = "api_get_office_images"
    /\ net = "Timeout"
    /\ site.contact # <<>>
    /\ envelope.status = "error"

(***************************************************************************)
(* Office image extraction: C6, C7, C8, C10.                               *)
(***************************************************************************)
OfficeKeys == {"IrresLatemImage", "IrresDestelbergenImage"}

\* The office image scrape returned its mapping.
ImagesScraped ==
    /\ op = "api_get_office_images"
    /\ envelope.status = "success"

\* The srcset and the lower-cased alt text of the image of a picture.
Srcset(p) == IF p.hasImg /\ p.hasSrcset THEN p.srcset ELSE <<>>

Alt(p) == IF p.hasImg /\ p.hasAlt THEN lower(p.alt) ELSE <<>>

RECURSIVE SkipSpace(_)
SkipSpace(s) == IF s # <<>> /\ isspace(Head(s)) THEN SkipSpace(Tail(s)) ELSE s

RECURSIVE TakeWord(_)
TakeWord(s) ==
    IF s = <<>> \/ isspace(Head(s)) THEN <<>> ELSE <<Head(s)>> \o TakeWord(Tail(s))

\* The first whitespace-delimited token of s; empty when s has none.
FirstToken(s) == TakeWord(SkipSpace(s))

RECURSIVE WithoutLeadingSlashes(_)
WithoutLeadingSlashes(s) ==
    IF s # <<>> /\ Head(s) = "/" THEN WithoutLeadingSlashes(Tail(s)) ELSE s

WithoutLeadingSlash(s) == IF s # <<>> /\ Head(s) = "/" THEN Tail(s) ELSE s

\* A picture whose image has a srcset with a first token.
Usable(p) == FirstToken(Srcset(p)) # <<>>

\* A picture whose image has a non-empty srcset without any token.
Malformed(p) == Srcset(p) # <<>> /\ FirstToken(Srcset(p)) = <<>>

RelPath(p) == WithoutLeadingSlashes(FirstToken(Srcset(p)))

SatisfiesLatem(p) ==
    /\ Usable(p)
    /\ \/ contains(<<"7","7","2","3","3","8","4">>, RelPath(p))
       \/ contains(<<"k","e","r","s","t","g","e","v","e","l">>, RelPath(p))
       \/ contains(<<"l","a","t","e","m">>, Alt(p))

SatisfiesDestelbergen(p) ==
    /\ Usable(p)
    /\ \/ contains(<<"7","7","2","3","3","8","3">>, RelPath(p))
       \/ contains(<<"d","e","s","t","e","l","b","e","r","g","e","n">>, RelPath(p))

Satisfies(p, k) ==
    IF k = "IrresLatemImage" THEN SatisfiesLatem(p) ELSE SatisfiesDestelbergen(p)

\* The office a picture is recorded under: the office-A test comes first.
OfficeOf(p) ==
    IF SatisfiesLatem(p) THEN "IrresLatemImage"
    ELSE IF SatisfiesDestelbergen(p) THEN "IrresDestelbergenImage"
    ELSE "none"

\* C6 (amended): the mapping parse_office_images returns has at most 2
\* entries, its keys are known office keys, a key is present only if some
\* picture matched that office, and every value is https://irres.be/
\* followed by the first srcset token of such a picture with all of its
\* leading slashes removed.
C6_KnownKeysAbsoluteUrls ==
    ImagesScraped =>
        LET images == envelope.images
        IN  /\ Cardinality(DOMAIN images) <= 2
            /\ DOMAIN images \subseteq OfficeKeys
            /\ envelope.count = Cardinality(DOMAIN images)
            /\ \A k \in DOMAIN images :
                \E i \in DOMAIN site.contact :
                    /\ Satisfies(site.contact[i], k)
                    /\ images[k] = ORIGIN \o
                         WithoutLeadingSlashes(FirstToken(Srcset(site.contact[i])))

\* C6 as stated: the same, every value being https://irres.be/ followed by
\* the first srcset token with its leading slash removed.
C6_Original ==
    ImagesScraped =>
        LET images == envelope.images
        IN  /\ Cardinality(DOMAIN images) <= 2
            /\ DOMAIN images \subseteq OfficeKeys
            /\ \A k \in DOMAIN images :
                \E i \in DOMAIN site.contact :
                    /\ Satisfies(site.contact[i], k)
                    /\ images[k] = ORIGIN \o
                         WithoutLeadingSlash(FirstToken(Srcset(site.contact[i])))

\* Witness of C6: a page with a picture for each office was parsed, one of
\* the first tokens starting with two slashes, and both keys are present.
C6_Witness ==
    /\ ImagesScraped
    /\ DOMAIN envelope.images = OfficeKeys
    /\ \E i \in DOMAIN site.contact :
        SubSeq(FirstToken(Srcset(site.contact[i])), 1, 2) = <<"/", "/">>

\* C7: for each office key, the value recorded is the URL of the last
\* picture in document order that is recorded under that key (and the key
\* is absent when there is none), so overwrites of one key leave the other
\* key's entry alone.
C7_LastMatchWins ==
    ImagesScraped =>
        \A k \in OfficeKeys :
            LET matching == { i \in DOMAIN site.contact : OfficeOf(site.contact[i]) = k }
            IN  IF matching = {} THEN k \notin DOMAIN envelope.images
                ELSE /\ k \in DOMAIN envelope.images
                     /\ envelope.images[k] = ORIGIN \o RelPath(site.contact[Max(matching)])

\* Witness of C7: two pictures with different URLs were recorded under the
\* same key, a picture of the other office came before them, and both keys
\* are present.
C7_Witness ==
    /\ ImagesScraped
    /\ DOMAIN envelope.images = OfficeKeys
    /\ \E h, i, j \in DOMAIN site.contact :
        /\ h < i /\ i < j
        /\ OfficeOf(site.contact[h]) # "none"
        /\ OfficeOf(site.contact[i]) # "none"
        /\ OfficeOf(site.contact[h]) # OfficeOf(site.contact[i])
        /\ OfficeOf(site.contact[i]) = OfficeOf(site.contact[j])
        /\ RelPath(site.contact[i]) # RelPath(site.contact[j])

\* C8: an image whose srcset is missing, empty or malformed contributes no
\* entry and does not make the extraction fail: after a successful fetch
\* scrape reports "success" and returns the entries of the other pictures.
C8_MalformedSrcsetSkipped ==
    (op = "api_get_office_images" /\ net = "ok") =>
        /\ envelope.status = "success"
        /\ envelope.images =
             parse_office_images(SelectSeq(site.contact, LAMBDA p : ~Malformed(p))).value

\* C10: a picture is recorded under at most one key, and a picture that
\* satisfies both the office-A and the office-B condition is recorded under
\* IrresLatemImage only: the IrresDestelbergenImage entry is what it is
\* without that picture.
C10_LatemTestFirst ==
    ImagesScraped =>
        \A i \in DOMAIN site.contact :
            LET p == site.contact[i]
                others == [ j \in 1..(Len(site.contact) - 1) |->
                              IF j < i THEN site.contact[j] ELSE site.contact[j + 1] ]
                without == parse_office_images(others).value
                alone == picture_step(p, EmptyDict).value
            IN  /\ Cardinality(DOMAIN alone) <= 1
                /\ (SatisfiesLatem(p) /\ SatisfiesDestelbergen(p)) =>
                    /\ DOMAIN alone = {"IrresLatemImage"}
                    /\ "IrresLatemImage" \in DOMAIN envelope.images
                    /\ ("IrresDestelbergenImage" \in DOMAIN envelope.images)
                         = ("IrresDestelbergenImage" \in DOMAIN without)
                    /\ "IrresDestelbergenImage" \in DOMAIN without =>
                         envelope.images["IrresDestelbergenImage"]
                           = without["IrresDestelbergenImage"]

\* Witness of C10: a picture satisfying both conditions was parsed after a
\* picture recorded under IrresDestelbergenImage, and both keys are present.
C10_Witness ==
    /\ ImagesScraped
    /\ DOMAIN envelope.images = OfficeKeys
    /\ \E i, j \in DOMAIN site.contact :
        /\ i < j
        /\ OfficeOf(site.contact[i]) = "IrresDestelbergenImage"
        /\ SatisfiesLatem(site.contact[j])
        /\ SatisfiesDestelbergen(site.contact[j])

(***************************************************************************)
(* Network calls: C9.                                                      *)
(***************************************************************************)
\* C9: every invocation issues exactly one GET: no second attempt after a
\* failure, no reuse of an earlier result in place of a fetch.
C9_OneGetPerInvocation == op # "none" => gets = 1

\* Witness of C9: a scrape on a scraper that holds the list of an earlier
\* successful scrape failed to fetch, having issued one GET.
C9_Witness ==
    /\ op = "scrape"
    /\ net # "ok"
    /\ locations # <<>>
    /\ gets = 1

(***************************************************************************)
(* The stored list of the long-lived scraper: C11.                         *)
(***************************************************************************)
\* One step keeps the stored list equal to the locations of the most recent
\* successful scrape: a successful scrape stores the list of its envelope,
\* every other step (a failed scrape included) leaves the list as it was.
StoredListStep ==
    IF op' = "scrape" /\ envelope'.status = "success"
    THEN IRRESLocationScraper_get_locations(locations') = envelope'.locations
    ELSE IRRESLocationScraper_get_locations(locations')
           = IRRESLocationScraper_get_locations(locations)

\* C11: for one IRRESLocationScraper, get_locations() is [] before any
\* scrape succeeded and from then on the locations of the most recent
\* successful scrape; a scrape that fails leaves the stored list unchanged.
C11_StoredListIsLastSuccess ==
    /\ IRRESLocationScraper_get_locations(locations) = <<>>
    /\ [][StoredListStep]_vars

\* Witness of C11: a scrape failed, its envelope reports "error" with
\* locations = [], and get_locations() still returns the non-empty list of
\* an earlier successful scrape of a page the origin has changed since.
C11_Witness ==
    /\ op = "scrape"
    /\ envelope.status = "error"
    /\ envelope.locations = <<>>
    /\ IRRESLocationScraper_get_locations(locations) # <<>>
    /\ IRRESLocationScraper_get_locations(locations) # parse_locations(site.listing)

====
